---------------------------- MODULE Spec2Model ----------------------------
(***************************************************************************)
(* A model of the flowy-ot core: attributed text operations (Insert,       *)
(* Retain, Delete), the normalising Delta builder and the OT algebra       *)
(* (apply, compose, transform, invert) of                                  *)
(*   src/rust-lib/flowy-ot/src/core/delta.rs                               *)
(*   src/rust-lib/flowy-ot/src/core/attributes.rs                          *)
(* The operation type itself (core/operation.rs: OpBuilder, get_attributes,*)
(* merge_or_new_op, length) and the interval type (core/interval.rs) are   *)
(* not among the source files; their pieces are modelled from the          *)
(* specification's sections 3, 4.2 and 4.8.                                *)
(*                                                                         *)
(* A text is a sequence of characters; a character is its Unicode scalar   *)
(* value, so that a length in characters differs from a length in UTF-8    *)
(* bytes.                                                                  *)
(***************************************************************************)
EXTENDS Integers, Sequences, FiniteSets, TLC

VARIABLES
    delta,      \* the Delta under construction (receiver of the builder calls)
    kept,       \* a finished Delta the caller keeps: `self` of compose/transform
    pc,         \* "first": building the first Delta, "second": building the
                \* second one, "done": an algebra function has returned
    calls,      \* number of builder calls made so far
    prev,       \* the receiver as it was before the last builder call
    call,       \* the last builder call and its arguments
    res         \* what the last algebra function returned

vars == <<delta, kept, pc, calls, prev, call, res>>

-----------------------------------------------------------------------------
(* Bounds of the model.                                                    *)

\* Builder calls that add something, per run, shared by the two Deltas.
MaxCalls == 3
\* Longest base document handed to apply and invert.
MaxText == 3

Min(x, y) == IF x < y THEN x ELSE y

-----------------------------------------------------------------------------
(* attributes.rs                                                           *)

REMOVE_FLAG == ""
should_remove(v) == v = REMOVE_FLAG

\* The keys and values of the attribute maps the model draws from.  A map is
\* a total function on Keys; ABSENT marks a key the HashMap does not hold.
Keys == {"bold", "italic"}
ABSENT == "absent"
Vals == {"true", REMOVE_FLAG}
AttributesData == [Keys -> Vals \cup {ABSENT}]

\* AttributesData::new
NewData == [k \in Keys |-> ABSENT]

contains_key(data, k) == data[k] # ABSENT

\* enum Attributes { Follow, Custom(AttributesData), Empty }
Follow == [tag |-> "Follow", data |-> NewData]
Empty == [tag |-> "Empty", data |-> NewData]
Custom(data) == [tag |-> "Custom", data |-> data]
\* Option<Attributes>::None
NoAttributes == [tag |-> "None", data |-> NewData]
\* The call did not return: Option::unwrap on None, or unimplemented!()
Panic == [tag |-> "Panic", data |-> NewData]

\* AttributesData::is_empty: no value other than the REMOVE flag
data_is_empty(data) ==
    Cardinality({k \in Keys : contains_key(data, k) /\ ~should_remove(data[k])}) = 0

\* AttributesData::remove_empty
remove_empty(data) ==
    [k \in Keys |-> IF contains_key(data, k) /\ should_remove(data[k])
                    THEN ABSENT ELSE data[k]]

\* AttributesData::extend: HashMap::extend, the entries of other win
extend(data, other) ==
    [k \in Keys |-> IF contains_key(other, k) THEN other[k] ELSE data[k]]

\* AttributesDataRule::into_attributes (apply_rule = remove_empty, then collapse)
into_attributes(data) ==
    LET d == remove_empty(data)
    IN  IF data_is_empty(d) THEN Empty ELSE Custom(d)

\* AttributesRule::apply_rule for Attributes
apply_rule(attr) ==
    IF attr.tag = "Custom" THEN into_attributes(attr.data) ELSE attr

\* Attributes::data, as an Option: present only for Custom
has_data(attr) == attr.tag = "Custom"

\* Attributes::is_empty
attributes_is_empty(attr) ==
    IF attr.tag = "Custom" THEN data_is_empty(attr.data) ELSE TRUE

\* merge_attributes whose (Custom, Custom) arm lets the entries of attributes win.
merge_attributes_left_wins(attributes, other_opt) ==
    LET other == IF other_opt.tag = "None" THEN Empty ELSE other_opt
    IN  IF attributes.tag = "Custom" /\ other.tag = "Custom"
        THEN Custom(extend(other.data, attributes.data))
        ELSE IF attributes.tag = "Custom"
        THEN Custom(attributes.data)
        ELSE other

\* merge_attributes(attributes, other: Option<Attributes>)
merge_attributes(attributes, other_opt) ==
    LET other == IF other_opt.tag = "None" THEN Empty ELSE other_opt
    IN  IF attributes.tag = "Custom" /\ other.tag = "Custom"
        THEN Custom(extend(attributes.data, other.data))
        ELSE IF attributes.tag = "Custom"
        THEN Custom(attributes.data)
        ELSE other

\* transform_attribute_data: the entries of right whose key left does not hold
transform_attribute_data(left, right) ==
    [k \in Keys |-> IF contains_key(right, k) /\ ~contains_key(left, k)
                    THEN right[k] ELSE ABSENT]

\* transform_attributes(left, right: Option<Attributes>, priority)
\* With left present, right.unwrap() panics on an absent right.
transform_attributes(left, right, priority) ==
    IF left.tag = "None"
    THEN IF right.tag = "None" THEN Empty ELSE right
    ELSE IF right.tag = "None"
    THEN Panic
    ELSE IF ~priority
    THEN right
    ELSE IF left.tag = "Custom" /\ right.tag = "Custom"
    THEN Custom(transform_attribute_data(left.data, right.data))
    ELSE Empty

\* invert_attributes whose second fold inserts the REMOVE flag for a key of
\* attr that base lacks (the line the source has commented out).
invert_attributes_emits_remove(attr, base) ==
    IF ~has_data(attr) /\ ~has_data(base)
    THEN Empty
    ELSE LET a == IF has_data(attr) THEN attr.data ELSE NewData
             b == IF has_data(base) THEN base.data ELSE NewData
         IN  Custom([k \in Keys |->
                        IF contains_key(b, k) /\ b[k] # a[k] /\ contains_key(a, k)
                        THEN b[k]
                        ELSE IF contains_key(a, k) /\ ~contains_key(b, k)
                        THEN REMOVE_FLAG ELSE ABSENT])

\* invert_attributes(attr, base)
invert_attributes(attr, base) ==
    IF ~has_data(attr) /\ ~has_data(base)
    THEN Empty
    ELSE LET a == IF has_data(attr) THEN attr.data ELSE NewData
             b == IF has_data(base) THEN base.data ELSE NewData
             base_inverted ==
                 [k \in Keys |-> IF contains_key(b, k) /\ b[k] # a[k]
                                    /\ contains_key(a, k)
                                 THEN b[k] ELSE ABSENT]
             inverted ==
                 [k \in Keys |-> IF contains_key(a, k) /\ b[k] # a[k]
                                    /\ ~contains_key(b, k)
                                 THEN ABSENT ELSE base_inverted[k]]
         IN  Custom(inverted)

-----------------------------------------------------------------------------
(* Text: characters, UTF-8 bytes and bytecount::num_chars                  *)

\* The UTF-8 encoding of the scalar value c (1 to 4 bytes).
utf8(c) ==
    IF c < 128 THEN <<c>>
    ELSE IF c < 2048 THEN <<192 + (c \div 64), 128 + (c % 64)>>
    ELSE IF c < 65536
    THEN <<224 + (c \div 4096), 128 + ((c \div 64) % 64), 128 + (c % 64)>>
    ELSE <<240 + (c \div 262144), 128 + ((c \div 4096) % 64),
           128 + ((c \div 64) % 64), 128 + (c % 64)>>

RECURSIVE as_bytes(_)
\* str::as_bytes
as_bytes(s) == IF s = <<>> THEN <<>> ELSE utf8(Head(s)) \o as_bytes(Tail(s))

RECURSIVE num_chars(_)
\* bytecount::num_chars: the bytes that are not UTF-8 continuation bytes
num_chars(bytes) ==
    IF bytes = <<>> THEN 0
    ELSE (IF Head(bytes) \in 128..191 THEN 0 ELSE 1) + num_chars(Tail(bytes))

\* Iterator::take that yields every character left.
take_all(chars, n) == chars

\* Iterator::take on the characters left, and what it leaves behind
take(chars, n) == SubSeq(chars, 1, Min(n, Len(chars)))
skip(chars, n) == SubSeq(chars, Min(n, Len(chars)) + 1, Len(chars))

-----------------------------------------------------------------------------
(* operation.rs (modelled from the specification)                          *)

\* Operation::Insert / Retain / Delete, and Option<Operation>::None.
\* Delete(u64) holds a number only: it has no attributes field.
OpInsert(s, attrs) == [kind |-> "Insert", s |-> s, n |-> 0, attributes |-> attrs]
OpRetain(n, attrs) == [kind |-> "Retain", s |-> <<>>, n |-> n, attributes |-> attrs]
OpDelete(n) == [kind |-> "Delete", s |-> <<>>, n |-> n, attributes |-> Empty]
None == [kind |-> "None", s |-> <<>>, n |-> 0, attributes |-> Empty]

\* Operation::get_attributes: a Delete has none
get_attributes(op) ==
    IF op.kind = "Delete" THEN Empty ELSE op.attributes

\* Insert::num_chars: the character count of the text
insert_num_chars(op) == num_chars(as_bytes(op.s))

\* Operation::length
length(op) == IF op.kind = "Insert" THEN insert_num_chars(op) ELSE op.n

\* Operation::has_attribute
has_attribute(op) == ~attributes_is_empty(get_attributes(op))

\* Insert::merge_or_new_op: equal attributes merge the texts, else a new op.
\* Returns the receiver as updated and the Option<Operation> result.
insert_merge_or_new_op(ins, s, attrs) ==
    IF ins.attributes = attrs
    THEN [self |-> [ins EXCEPT !.s = ins.s \o s], new_op |-> None]
    ELSE [self |-> ins, new_op |-> OpInsert(s, attrs)]

\* Retain::merge_or_new_op: equal attributes sum the lengths, else a new op.
retain_merge_or_new_op(ret, n, attrs) ==
    IF ret.attributes = attrs
    THEN [self |-> [ret EXCEPT !.n = ret.n + n], new_op |-> None]
    ELSE [self |-> ret, new_op |-> OpRetain(n, attrs)]

-----------------------------------------------------------------------------
(* delta.rs: the Delta and its builder                                     *)

\* Delta::default
EmptyDelta == [ops |-> <<>>, base_len |-> 0, target_len |-> 0]

push(ops, op) == Append(ops, op)
last(ops) == ops[Len(ops)]
set_last(ops, op) == [ops EXCEPT ![Len(ops)] = op]

\* Delta::delete that appends a Delete whatever the last op is.
delete_never_merges(d, n) ==
    IF n = 0 THEN d
    ELSE [d EXCEPT !.base_len = d.base_len + n, !.ops = push(d.ops, OpDelete(n))]

\* Delta::delete without its `self.base_len += n`.
delete_forgets_base_len(d, n) ==
    IF n = 0 THEN d
    ELSE IF d.ops # <<>> /\ last(d.ops).kind = "Delete"
    THEN [d EXCEPT !.ops = set_last(d.ops, OpDelete(last(d.ops).n + n))]
    ELSE [d EXCEPT !.ops = push(d.ops, OpDelete(n))]

\* Delta::delete
delete(d, n) ==
    IF n = 0 THEN d
    ELSE LET base == d.base_len + n
         IN  IF d.ops # <<>> /\ last(d.ops).kind = "Delete"
             THEN [d EXCEPT !.base_len = base,
                            !.ops = set_last(d.ops, OpDelete(last(d.ops).n + n))]
             ELSE [d EXCEPT !.base_len = base, !.ops = push(d.ops, OpDelete(n))]

\* Delta::insert that adds the number of bytes of s, not of its characters, to
\* target_len.
insert_counts_bytes(d, s, attrs) ==
    IF s = <<>> THEN d
    ELSE LET len == Len(d.ops)
             m == IF len >= 1 /\ d.ops[len].kind = "Insert"
                  THEN LET r == insert_merge_or_new_op(d.ops[len], s, attrs)
                       IN  [ops |-> set_last(d.ops, r.self), new_last |-> r.new_op]
                  ELSE IF len >= 2 /\ d.ops[len - 1].kind = "Insert"
                                   /\ d.ops[len].kind = "Delete"
                  THEN LET r == insert_merge_or_new_op(d.ops[len - 1], s, attrs)
                       IN  [ops |-> [d.ops EXCEPT ![len - 1] = r.self],
                            new_last |-> r.new_op]
                  ELSE IF len >= 1 /\ d.ops[len].kind = "Delete"
                  THEN [ops |-> set_last(d.ops, OpInsert(s, attrs)),
                        new_last |-> d.ops[len]]
                  ELSE [ops |-> d.ops, new_last |-> OpInsert(s, attrs)]
         IN  [d EXCEPT !.target_len = d.target_len + Len(as_bytes(s)),
                       !.ops = IF m.new_last = None THEN m.ops
                               ELSE push(m.ops, m.new_last)]

\* Delta::insert
insert(d, s, attrs) ==
    IF s = <<>> THEN d
    ELSE LET target == d.target_len + num_chars(as_bytes(s))
             len == Len(d.ops)
             \* the slice patterns of the match, first match wins
             m == IF len >= 1 /\ d.ops[len].kind = "Insert"
                  THEN LET r == insert_merge_or_new_op(d.ops[len], s, attrs)
                       IN  [ops |-> set_last(d.ops, r.self), new_last |-> r.new_op]
                  ELSE IF len >= 2 /\ d.ops[len - 1].kind = "Insert"
                                   /\ d.ops[len].kind = "Delete"
                  THEN LET r == insert_merge_or_new_op(d.ops[len - 1], s, attrs)
                       IN  [ops |-> [d.ops EXCEPT ![len - 1] = r.self],
                            new_last |-> r.new_op]
                  ELSE IF len >= 1 /\ d.ops[len].kind = "Delete"
                  THEN [ops |-> set_last(d.ops, OpInsert(s, attrs)),
                        new_last |-> d.ops[len]]
                  ELSE [ops |-> d.ops, new_last |-> OpInsert(s, attrs)]
         IN  [d EXCEPT !.target_len = target,
                       !.ops = IF m.new_last = None THEN m.ops
                               ELSE push(m.ops, m.new_last)]

\* Delta::retain without its `self.target_len += n`.
retain_forgets_target_len(d, n, attrs) ==
    IF n = 0 THEN d
    ELSE LET base == d.base_len + n
         IN  IF d.ops # <<>> /\ last(d.ops).kind = "Retain"
             THEN LET r == retain_merge_or_new_op(last(d.ops), n, attrs)
                  IN  [ops |-> IF r.new_op = None THEN set_last(d.ops, r.self)
                               ELSE push(set_last(d.ops, r.self), r.new_op),
                       base_len |-> base, target_len |-> d.target_len]
             ELSE [ops |-> push(d.ops, OpRetain(n, attrs)),
                   base_len |-> base, target_len |-> d.target_len]

\* Delta::retain without its early return on n == 0.
retain_keeps_zero(d, n, attrs) ==
    IF d.ops # <<>> /\ last(d.ops).kind = "Retain"
    THEN LET r == retain_merge_or_new_op(last(d.ops), n, attrs)
         IN  [ops |-> IF r.new_op = None THEN set_last(d.ops, r.self)
                      ELSE push(set_last(d.ops, r.self), r.new_op),
              base_len |-> d.base_len + n, target_len |-> d.target_len + n]
    ELSE [ops |-> push(d.ops, OpRetain(n, attrs)),
          base_len |-> d.base_len + n, target_len |-> d.target_len + n]

\* Delta::retain
retain(d, n, attrs) ==
    IF n = 0 THEN d
    ELSE LET base == d.base_len + n
             target == d.target_len + n
         IN  IF d.ops # <<>> /\ last(d.ops).kind = "Retain"
             THEN LET r == retain_merge_or_new_op(last(d.ops), n, attrs)
                  IN  [ops |-> IF r.new_op = None THEN set_last(d.ops, r.self)
                               ELSE push(set_last(d.ops, r.self), r.new_op),
                       base_len |-> base, target_len |-> target]
             ELSE [ops |-> push(d.ops, OpRetain(n, attrs)),
                   base_len |-> base, target_len |-> target]

\* Delta::add that hands a Retain on without its attributes.
add_drops_retain_attributes(d, op) ==
    IF op.kind = "Delete" THEN delete(d, op.n)
    ELSE IF op.kind = "Insert" THEN insert(d, op.s, op.attributes)
    ELSE retain(d, op.n, Empty)

\* Delta::add
add(d, op) ==
    IF op.kind = "Delete" THEN delete(d, op.n)
    ELSE IF op.kind = "Insert" THEN insert(d, op.s, op.attributes)
    ELSE retain(d, op.n, op.attributes)

RECURSIVE from_iter_loop(_, _)
from_iter_loop(operations, ops) ==
    IF ops = <<>> THEN operations
    ELSE from_iter_loop(add(operations, Head(ops)), Tail(ops))

\* FromIterator<Operation> for Delta
from_iter(ops) == from_iter_loop(EmptyDelta, ops)

-----------------------------------------------------------------------------
(* attributes.rs: the functions that take Option<Operation>                *)

\* attributes_from
attributes_from(operation) ==
    IF operation = None THEN NoAttributes ELSE get_attributes(operation)

\* compose_attributes(left, right: &Option<Operation>)
compose_attributes(left, right) ==
    IF left = None /\ right = None
    THEN Empty
    ELSE LET attr_l == attributes_from(left)
             attr_r == attributes_from(right)
             attr == IF attr_r.tag = "Custom"
                     THEN IF attr_l.tag = "None" THEN attr_r
                          ELSE merge_attributes(attr_l, attr_r)
                     ELSE IF attr_l.tag = "Custom" /\ attr_r.tag = "Follow"
                     THEN merge_attributes(attr_l, attr_r)
                     ELSE IF attr_l.tag = "Follow" /\ attr_r.tag = "Follow"
                     THEN Follow
                     ELSE Empty
         IN  apply_rule(attr)

\* transform_op_attributes
transform_op_attributes(left, right, priority) ==
    transform_attributes(attributes_from(left), attributes_from(right), priority)

-----------------------------------------------------------------------------
(* delta.rs: the OT algebra                                                *)

\* Result<Delta, OTError>, Result<(Delta, Delta), OTError>, Result<String, OTError>
OkDelta(d) == [ok |-> TRUE, delta |-> d]
ErrDelta == [ok |-> FALSE, delta |-> EmptyDelta]
OkPair(x, y) == [ok |-> TRUE, a_prime |-> x, b_prime |-> y]
ErrPair == [ok |-> FALSE, a_prime |-> EmptyDelta, b_prime |-> EmptyDelta]
OkString(s) == [ok |-> TRUE, s |-> s]
ErrString == [ok |-> FALSE, s |-> <<>>]

\* Iterator::next on the ops that are left: the Option it returns, and the rest
next(ops) == IF ops = <<>> THEN None ELSE Head(ops)
rest(ops) == IF ops = <<>> THEN <<>> ELSE Tail(ops)

RECURSIVE compose_loop(_, _, _, _, _)
\* The loop of Delta::compose: new_delta, the two iterators, next_op1, next_op2.
compose_loop(new_delta, ops1, ops2, op1, op2) ==
    IF op1 = None /\ op2 = None
    THEN OkDelta(new_delta)
    ELSE IF op1.kind = "Delete"
    THEN compose_loop(delete(new_delta, op1.n), rest(ops1), ops2, next(ops1), op2)
    ELSE IF op2.kind = "Insert"
    THEN compose_loop(insert(new_delta, op2.s, op2.attributes),
                      ops1, rest(ops2), op1, next(ops2))
    ELSE IF op1 = None \/ op2 = None
    THEN ErrDelta
    ELSE IF op1.kind = "Retain" /\ op2.kind = "Retain"
    THEN LET composed_attrs == compose_attributes(op1, op2)
         IN  IF op1.n < op2.n
             THEN compose_loop(retain(new_delta, op1.n, composed_attrs),
                               rest(ops1), ops2,
                               next(ops1), OpRetain(op2.n - op1.n, Empty))
             ELSE IF op1.n = op2.n
             THEN compose_loop(retain(new_delta, op1.n, composed_attrs),
                               rest(ops1), rest(ops2), next(ops1), next(ops2))
             ELSE compose_loop(retain(new_delta, op2.n, composed_attrs),
                               ops1, rest(ops2),
                               OpRetain(op1.n - op2.n, Empty), next(ops2))
    ELSE IF op1.kind = "Insert" /\ op2.kind = "Delete"
    THEN LET len == num_chars(as_bytes(op1.s))
         IN  IF len < op2.n
             THEN compose_loop(new_delta, rest(ops1), ops2,
                               next(ops1), OpDelete(op2.n - len))
             ELSE IF len = op2.n
             THEN compose_loop(new_delta, rest(ops1), rest(ops2),
                               next(ops1), next(ops2))
             ELSE compose_loop(new_delta, ops1, rest(ops2),
                               OpInsert(skip(op1.s, op2.n), Empty), next(ops2))
    ELSE IF op1.kind = "Insert" /\ op2.kind = "Retain"
    THEN LET composed_attrs == compose_attributes(op1, op2)
             len == insert_num_chars(op1)
         IN  IF len < op2.n
             THEN compose_loop(insert(new_delta, op1.s, composed_attrs),
                               rest(ops1), ops2,
                               next(ops1), OpRetain(op2.n - len, composed_attrs))
             ELSE IF len = op2.n
             THEN compose_loop(insert(new_delta, op1.s, composed_attrs),
                               rest(ops1), rest(ops2), next(ops1), next(ops2))
             ELSE compose_loop(insert(new_delta, take(op1.s, op2.n), composed_attrs),
                               ops1, rest(ops2),
                               OpInsert(skip(op1.s, op2.n), Empty), next(ops2))
    ELSE \* op1.kind = "Retain" /\ op2.kind = "Delete"
         IF op1.n < op2.n
         THEN compose_loop(delete(new_delta, op1.n), rest(ops1), ops2,
                           next(ops1), OpDelete(op2.n - op1.n))
         ELSE IF op1.n = op2.n
         THEN compose_loop(delete(new_delta, op2.n), rest(ops1), rest(ops2),
                           next(ops1), next(ops2))
         ELSE compose_loop(delete(new_delta, op2.n), ops1, rest(ops2),
                           OpRetain(op1.n - op2.n, Empty), next(ops2))

\* Delta::compose with the two cursors taken from the wrong Deltas.
compose_swapped_cursors(self, other) ==
    IF self.target_len # other.base_len
    THEN ErrDelta
    ELSE compose_loop(EmptyDelta, rest(other.ops), rest(self.ops),
                      next(other.ops), next(self.ops))

\* Delta::compose
compose(self, other) ==
    IF self.target_len # other.base_len
    THEN ErrDelta
    ELSE compose_loop(EmptyDelta, rest(self.ops), rest(other.ops),
                      next(self.ops), next(other.ops))

RECURSIVE transform_loop(_, _, _, _, _, _)
\* The loop of Delta::transform: a_prime, b_prime, the iterators, the next ops.
transform_loop(a_prime, b_prime, ops1, ops2, op1, op2) ==
    IF op1 = None /\ op2 = None
    THEN OkPair(a_prime, b_prime)
    ELSE IF op1.kind = "Insert"
    THEN transform_loop(insert(a_prime, op1.s, op1.attributes),
                        retain(b_prime, insert_num_chars(op1), op1.attributes),
                        rest(ops1), ops2, next(ops1), op2)
    ELSE IF op2.kind = "Insert"
    THEN LET composed_attrs == transform_op_attributes(op1, op2, TRUE)
         IN  transform_loop(retain(a_prime, insert_num_chars(op2), composed_attrs),
                            insert(b_prime, op2.s, composed_attrs),
                            ops1, rest(ops2), op1, next(ops2))
    ELSE IF op1 = None
    THEN ErrPair
    ELSE IF op2 = None
    THEN ErrPair
    ELSE IF op1.kind = "Retain" /\ op2.kind = "Retain"
    THEN LET composed_attrs == transform_op_attributes(op1, op2, TRUE)
         IN  IF op1.n < op2.n
             THEN transform_loop(retain(a_prime, op1.n, composed_attrs),
                                 retain(b_prime, op1.n, composed_attrs),
                                 rest(ops1), ops2,
                                 next(ops1), OpRetain(op2.n - op1.n, Empty))
             ELSE IF op1.n = op2.n
             THEN transform_loop(retain(a_prime, op1.n, composed_attrs),
                                 retain(b_prime, op1.n, composed_attrs),
                                 rest(ops1), rest(ops2), next(ops1), next(ops2))
             ELSE transform_loop(retain(a_prime, op2.n, composed_attrs),
                                 retain(b_prime, op2.n, composed_attrs),
                                 ops1, rest(ops2),
                                 OpRetain(op1.n - op2.n, Empty), next(ops2))
    ELSE IF op1.kind = "Delete" /\ op2.kind = "Delete"
    THEN IF op1.n < op2.n
         THEN transform_loop(a_prime, b_prime, rest(ops1), ops2,
                             next(ops1), OpDelete(op2.n - op1.n))
         ELSE IF op1.n = op2.n
         THEN transform_loop(a_prime, b_prime, rest(ops1), rest(ops2),
                             next(ops1), next(ops2))
         ELSE transform_loop(a_prime, b_prime, ops1, rest(ops2),
                             OpDelete(op1.n - op2.n), next(ops2))
    ELSE IF op1.kind = "Delete" /\ op2.kind = "Retain"
    THEN IF op1.n < op2.n
         THEN transform_loop(delete(a_prime, op1.n), b_prime, rest(ops1), ops2,
                             next(ops1), OpRetain(op2.n - op1.n, Empty))
         ELSE IF op1.n = op2.n
         THEN transform_loop(delete(a_prime, op1.n), b_prime, rest(ops1), rest(ops2),
                             next(ops1), next(ops2))
         ELSE transform_loop(delete(a_prime, op2.n), b_prime, ops1, rest(ops2),
                             OpDelete(op1.n - op2.n), next(ops2))
    ELSE \* op1.kind = "Retain" /\ op2.kind = "Delete"
         IF op1.n < op2.n
         THEN transform_loop(a_prime, delete(b_prime, op1.n), rest(ops1), ops2,
                             next(ops1), OpDelete(op2.n - op1.n))
         ELSE IF op1.n = op2.n
         THEN transform_loop(a_prime, delete(b_prime, op1.n), rest(ops1), rest(ops2),
                             next(ops1), next(ops2))
         ELSE transform_loop(a_prime, delete(b_prime, op2.n), ops1, rest(ops2),
                             OpRetain(op1.n - op2.n, Empty), next(ops2))

\* Delta::transform that returns (b_prime, a_prime).
transform_swapped_result(self, other) ==
    IF self.base_len # other.base_len
    THEN ErrPair
    ELSE LET r == transform_loop(EmptyDelta, EmptyDelta, rest(self.ops),
                                 rest(other.ops), next(self.ops), next(other.ops))
         IN  IF r.ok THEN OkPair(r.b_prime, r.a_prime) ELSE ErrPair

\* Delta::transform that returns (a_prime, a_prime).
transform_same_pair(self, other) ==
    IF self.base_len # other.base_len
    THEN ErrPair
    ELSE LET r == transform_loop(EmptyDelta, EmptyDelta, rest(self.ops),
                                 rest(other.ops), next(self.ops), next(other.ops))
         IN  IF r.ok THEN OkPair(r.a_prime, r.a_prime) ELSE ErrPair

\* Delta::transform that walks other as the first cursor, so that the inserts
\* of other are placed before those of self.
transform_other_wins(self, other) ==
    IF self.base_len # other.base_len
    THEN ErrPair
    ELSE LET r == transform_loop(EmptyDelta, EmptyDelta, rest(other.ops),
                                 rest(self.ops), next(other.ops), next(self.ops))
         IN  IF r.ok THEN OkPair(r.b_prime, r.a_prime) ELSE ErrPair

\* Delta::transform
transform(self, other) ==
    IF self.base_len # other.base_len
    THEN ErrPair
    ELSE transform_loop(EmptyDelta, EmptyDelta, rest(self.ops), rest(other.ops),
                        next(self.ops), next(other.ops))

\* The locals of a running co-iteration loop of compose or transform: the output
\* Deltas (d1 is new_delta or a_prime, d2 is b_prime), the two iterators ops1
\* and ops2, and next_op1 and next_op2. running is FALSE once the loop is left,
\* by break (ok) or by return Err(OTError).
LoopState(d1, d2, ops1, ops2, op1, op2) ==
    [running |-> TRUE, ok |-> TRUE, d1 |-> d1, d2 |-> d2,
     ops1 |-> ops1, ops2 |-> ops2, next_op1 |-> op1, next_op2 |-> op2]
Break(l) == [l EXCEPT !.running = FALSE]
ReturnErr(l) ==
    [l EXCEPT !.running = FALSE, !.ok = FALSE, !.d1 = EmptyDelta, !.d2 = EmptyDelta]

\* A cursor of the loop: the current op and the iterator behind it
Cursor(op, ops) == [op |-> op, ops |-> ops]

\* next_op1 = ops1.next() that leaves the iterator and next_op1 where they are.
consumed1_stays(l) == Cursor(l.next_op1, l.ops1)

\* next_op1 = ops1.next(), next_op2 = ops2.next()
consumed1(l) == Cursor(next(l.ops1), rest(l.ops1))
consumed2(l) == Cursor(next(l.ops2), rest(l.ops2))
\* next_op1 = Some(op), next_op2 = Some(op): the iterator is not touched
remainder1(l, op) == Cursor(op, l.ops1)
remainder2(l, op) == Cursor(op, l.ops2)
\* a pass that does not assign next_op1, next_op2
same1(l) == Cursor(l.next_op1, l.ops1)
same2(l) == Cursor(l.next_op2, l.ops2)

\* The locals after a pass that goes on: the outputs and the two cursors
Pass(l, d1, d2, c1, c2) ==
    [l EXCEPT !.d1 = d1, !.d2 = d2, !.next_op1 = c1.op, !.ops1 = c1.ops,
              !.next_op2 = c2.op, !.ops2 = c2.ops]

\* One pass of the loop of Delta::compose
compose_iteration(l) ==
    LET op1 == l.next_op1
        op2 == l.next_op2
    IN  IF op1 = None /\ op2 = None
        THEN Break(l)
        ELSE IF op1.kind = "Delete"
        THEN Pass(l, delete(l.d1, op1.n), l.d2, consumed1(l), same2(l))
        ELSE IF op2.kind = "Insert"
        THEN Pass(l, insert(l.d1, op2.s, op2.attributes), l.d2, same1(l), consumed2(l))
        ELSE IF op1 = None \/ op2 = None
        THEN ReturnErr(l)
        ELSE IF op1.kind = "Retain" /\ op2.kind = "Retain"
        THEN LET composed_attrs == compose_attributes(op1, op2)
             IN  IF op1.n < op2.n
                 THEN Pass(l, retain(l.d1, op1.n, composed_attrs), l.d2,
                           consumed1(l), remainder2(l, OpRetain(op2.n - op1.n, Empty)))
                 ELSE IF op1.n = op2.n
                 THEN Pass(l, retain(l.d1, op1.n, composed_attrs), l.d2,
                           consumed1(l), consumed2(l))
                 ELSE Pass(l, retain(l.d1, op2.n, composed_attrs), l.d2,
                           remainder1(l, OpRetain(op1.n - op2.n, Empty)), consumed2(l))
        ELSE IF op1.kind = "Insert" /\ op2.kind = "Delete"
        THEN LET len == num_chars(as_bytes(op1.s))
             IN  IF len < op2.n
                 THEN Pass(l, l.d1, l.d2,
                           consumed1(l), remainder2(l, OpDelete(op2.n - len)))
                 ELSE IF len = op2.n
                 THEN Pass(l, l.d1, l.d2, consumed1(l), consumed2(l))
                 ELSE Pass(l, l.d1, l.d2,
                           remainder1(l, OpInsert(skip(op1.s, op2.n), Empty)),
                           consumed2(l))
        ELSE IF op1.kind = "Insert" /\ op2.kind = "Retain"
        THEN LET composed_attrs == compose_attributes(op1, op2)
                 len == insert_num_chars(op1)
             IN  IF len < op2.n
                 THEN Pass(l, insert(l.d1, op1.s, composed_attrs), l.d2,
                           consumed1(l),
                           remainder2(l, OpRetain(op2.n - len, composed_attrs)))
                 ELSE IF len = op2.n
                 THEN Pass(l, insert(l.d1, op1.s, composed_attrs), l.d2,
                           consumed1(l), consumed2(l))
                 ELSE Pass(l, insert(l.d1, take(op1.s, op2.n), composed_attrs), l.d2,
                           remainder1(l, OpInsert(skip(op1.s, op2.n), Empty)),
                           consumed2(l))
        ELSE \* op1.kind = "Retain" /\ op2.kind = "Delete"
             IF op1.n < op2.n
             THEN Pass(l, delete(l.d1, op1.n), l.d2,
                       consumed1(l), remainder2(l, OpDelete(op2.n - op1.n)))
             ELSE IF op1.n = op2.n
             THEN Pass(l, delete(l.d1, op2.n), l.d2, consumed1(l), consumed2(l))
             ELSE Pass(l, delete(l.d1, op2.n), l.d2,
                       remainder1(l, OpRetain(op1.n - op2.n, Empty)), consumed2(l))

\* One pass of the loop of Delta::transform
transform_iteration(l) ==
    LET op1 == l.next_op1
        op2 == l.next_op2
    IN  IF op1 = None /\ op2 = None
        THEN Break(l)
        ELSE IF op1.kind = "Insert"
        THEN Pass(l, insert(l.d1, op1.s, op1.attributes),
                  retain(l.d2, insert_num_chars(op1), op1.attributes),
                  consumed1(l), same2(l))
        ELSE IF op2.kind = "Insert"
        THEN LET composed_attrs == transform_op_attributes(op1, op2, TRUE)
             IN  Pass(l, retain(l.d1, insert_num_chars(op2), composed_attrs),
                      insert(l.d2, op2.s, composed_attrs),
                      same1(l), consumed2(l))
        ELSE IF op1 = None
        THEN ReturnErr(l)
        ELSE IF op2 = None
        THEN ReturnErr(l)
        ELSE IF op1.kind = "Retain" /\ op2.kind = "Retain"
        THEN LET composed_attrs == transform_op_attributes(op1, op2, TRUE)
             IN  IF op1.n < op2.n
                 THEN Pass(l, retain(l.d1, op1.n, composed_attrs),
                           retain(l.d2, op1.n, composed_attrs),
                           consumed1(l), remainder2(l, OpRetain(op2.n - op1.n, Empty)))
                 ELSE IF op1.n = op2.n
                 THEN Pass(l, retain(l.d1, op1.n, composed_attrs),
                           retain(l.d2, op1.n, composed_attrs),
                           consumed1(l), consumed2(l))
                 ELSE Pass(l, retain(l.d1, op2.n, composed_attrs),
                           retain(l.d2, op2.n, composed_attrs),
                           remainder1(l, OpRetain(op1.n - op2.n, Empty)), consumed2(l))
        ELSE IF op1.kind = "Delete" /\ op2.kind = "Delete"
        THEN IF op1.n < op2.n
             THEN Pass(l, l.d1, l.d2,
                       consumed1(l), remainder2(l, OpDelete(op2.n - op1.n)))
             ELSE IF op1.n = op2.n
             THEN Pass(l, l.d1, l.d2, consumed1(l), consumed2(l))
             ELSE Pass(l, l.d1, l.d2,
                       remainder1(l, OpDelete(op1.n - op2.n)), consumed2(l))
        ELSE IF op1.kind = "Delete" /\ op2.kind = "Retain"
        THEN IF op1.n < op2.n
             THEN Pass(l, delete(l.d1, op1.n), l.d2,
                       consumed1(l), remainder2(l, OpRetain(op2.n - op1.n, Empty)))
             ELSE IF op1.n = op2.n
             THEN Pass(l, delete(l.d1, op1.n), l.d2, consumed1(l), consumed2(l))
             ELSE Pass(l, delete(l.d1, op2.n), l.d2,
                       remainder1(l, OpDelete(op1.n - op2.n)), consumed2(l))
        ELSE \* op1.kind = "Retain" /\ op2.kind = "Delete"
             IF op1.n < op2.n
             THEN Pass(l, l.d1, delete(l.d2, op1.n),
                       consumed1(l), remainder2(l, OpDelete(op2.n - op1.n)))
             ELSE IF op1.n = op2.n
             THEN Pass(l, l.d1, delete(l.d2, op1.n), consumed1(l), consumed2(l))
             ELSE Pass(l, l.d1, delete(l.d2, op2.n),
                       remainder1(l, OpRetain(op1.n - op2.n, Empty)), consumed2(l))

\* The state of the loop as compose and transform enter it
loop_entry(self, other) ==
    LoopState(EmptyDelta, EmptyDelta, rest(self.ops), rest(other.ops),
              next(self.ops), next(other.ops))

RECURSIVE apply_loop(_, _, _)
\* The loop of Delta::apply: new_s, the characters left, the ops left.
apply_loop(new_s, chars, ops) ==
    IF ops = <<>> THEN new_s
    ELSE LET op == Head(ops)
         IN  IF op.kind = "Retain"
             THEN apply_loop(new_s \o take(chars, op.n), skip(chars, op.n), Tail(ops))
             ELSE IF op.kind = "Delete"
             THEN apply_loop(new_s, skip(chars, op.n), Tail(ops))
             ELSE apply_loop(new_s \o op.s, chars, Tail(ops))

\* Delta::apply without the comparison of the character count with base_len.
apply_unchecked(self, s) == OkString(apply_loop(<<>>, s, self.ops))

\* Delta::apply
apply(self, s) ==
    IF num_chars(as_bytes(s)) # self.base_len
    THEN ErrString
    ELSE OkString(apply_loop(<<>>, s, self.ops))

RECURSIVE invert_loop(_, _, _)
\* The loop of Delta::invert: inverted, the characters left, the ops left.
invert_loop(inverted, chars, ops) ==
    IF ops = <<>> THEN inverted
    ELSE LET op == Head(ops)
         IN  IF op.kind = "Retain"
             THEN invert_loop(retain(inverted, op.n, Follow), skip(chars, op.n), Tail(ops))
             ELSE IF op.kind = "Insert"
             THEN invert_loop(delete(inverted, insert_num_chars(op)), chars, Tail(ops))
             ELSE invert_loop(insert(inverted, take(chars, op.n), get_attributes(op)),
                              skip(chars, op.n), Tail(ops))

RECURSIVE invert_loop_keeps_attributes(_, _, _)
invert_loop_keeps_attributes(inverted, chars, ops) ==
    IF ops = <<>> THEN inverted
    ELSE LET op == Head(ops)
         IN  IF op.kind = "Retain"
             THEN invert_loop_keeps_attributes(retain(inverted, op.n, op.attributes),
                                               skip(chars, op.n), Tail(ops))
             ELSE IF op.kind = "Insert"
             THEN invert_loop_keeps_attributes(delete(inverted, insert_num_chars(op)),
                                               chars, Tail(ops))
             ELSE invert_loop_keeps_attributes(
                      insert(inverted, take(chars, op.n), get_attributes(op)),
                      skip(chars, op.n), Tail(ops))

\* Delta::invert whose Retain branch hands on the attributes of the Retain
\* instead of Attributes::Follow.
invert_keeps_attributes(self, s) == invert_loop_keeps_attributes(EmptyDelta, s, self.ops)

RECURSIVE invert_loop_no_advance(_, _, _)
invert_loop_no_advance(inverted, chars, ops) ==
    IF ops = <<>> THEN inverted
    ELSE LET op == Head(ops)
         IN  IF op.kind = "Retain"
             THEN invert_loop_no_advance(retain(inverted, op.n, Follow), chars, Tail(ops))
             ELSE IF op.kind = "Insert"
             THEN invert_loop_no_advance(delete(inverted, insert_num_chars(op)),
                                         chars, Tail(ops))
             ELSE invert_loop_no_advance(
                      insert(inverted, take(chars, op.n), get_attributes(op)),
                      skip(chars, op.n), Tail(ops))

\* Delta::invert whose Retain branch does not advance the characters.
invert_no_advance(self, s) == invert_loop_no_advance(EmptyDelta, s, self.ops)

\* Delta::invert
invert(self, s) == invert_loop(EmptyDelta, s, self.ops)

-----------------------------------------------------------------------------
(* interval.rs (modelled from the specification) and the interval queries  *)

\* Interval::new(start, end): the half-open range [start, end)
Interval(start, end) == [start |-> start, end |-> end]

\* Interval::contains_range: [start, end) lies within the interval
contains_range(interval, start, end) ==
    interval.start <= start /\ end <= interval.end

RECURSIVE ops_in_interval_loop(_, _, _, _)
\* The while loop of Delta::ops_in_interval: ops, offset, the ops not yet visited.
ops_in_interval_loop(ops, offset, ops_iter, interval) ==
    IF offset < interval.end /\ ops_iter # <<>>
    THEN LET op == Head(ops_iter)
         IN  IF offset < interval.start
             THEN ops_in_interval_loop(ops, offset + length(op), Tail(ops_iter),
                                       interval)
             ELSE ops_in_interval_loop(push(ops, op), offset + length(op),
                                       Tail(ops_iter), interval)
    ELSE ops

\* Delta::ops_in_interval
ops_in_interval(self, interval) ==
    ops_in_interval_loop(<<>>, 0, self.ops, interval)

RECURSIVE attributes_in_interval_loop(_, _, _, _)
\* The for_each of Delta::attributes_in_interval: attributes_data, offset, the
\* ops not yet visited.  A Retain reaches unimplemented!().
attributes_in_interval_loop(attributes_data, offset, ops, interval) ==
    IF ops = <<>> THEN into_attributes(attributes_data)
    ELSE LET op == Head(ops)
         IN  IF op.kind = "Delete"
             THEN attributes_in_interval_loop(attributes_data, offset, Tail(ops),
                                              interval)
             ELSE IF op.kind = "Retain"
             THEN Panic
             ELSE LET end == insert_num_chars(op)
                  IN  attributes_in_interval_loop(
                          IF op.attributes.tag = "Custom"
                             /\ contains_range(interval, offset, offset + end)
                          THEN extend(attributes_data, op.attributes.data)
                          ELSE attributes_data,
                          offset + end, Tail(ops), interval)

\* Delta::attributes_in_interval
attributes_in_interval(self, interval) ==
    attributes_in_interval_loop(NewData, 0, self.ops, interval)

RECURSIVE inverted_from_other_loop(_, _, _)
\* The for_each of the closure inverted_from_other of Delta::invert_delta.
inverted_from_other_loop(inverted, operation, ops) ==
    IF ops = <<>> THEN inverted
    ELSE LET other_op == Head(ops)
         IN  IF operation.kind = "Delete"
             THEN inverted_from_other_loop(add(inverted, other_op), operation, Tail(ops))
             ELSE IF operation.kind = "Retain"
             THEN inverted_from_other_loop(
                      retain(inverted, length(other_op),
                             invert_attributes(get_attributes(operation),
                                               get_attributes(other_op))),
                      operation, Tail(ops))
             ELSE inverted_from_other_loop(inverted, operation, Tail(ops))

\* The closure inverted_from_other: the interval is Interval::new(index, op_len).
inverted_from_other(inverted, operation, index, op_len, other) ==
    inverted_from_other_loop(inverted, operation,
                             ops_in_interval(other, Interval(index, op_len)))

RECURSIVE invert_delta_loop(_, _, _, _)
\* The for loop of Delta::invert_delta: inverted, index, the ops of self left.
invert_delta_loop(inverted, index, ops, other) ==
    IF ops = <<>> THEN inverted
    ELSE LET op == Head(ops)
             len == length(op)
         IN  IF op.kind = "Delete"
             THEN invert_delta_loop(inverted_from_other(inverted, op, index, len, other),
                                    index + len, Tail(ops), other)
             ELSE IF op.kind = "Retain"
             THEN invert_delta_loop(
                      IF has_attribute(op)
                      THEN retain(inverted, len, get_attributes(op))
                      ELSE inverted_from_other(inverted, op, index, len, other),
                      index + len, Tail(ops), other)
             ELSE invert_delta_loop(delete(inverted, len), index, Tail(ops), other)

\* Delta::is_noop: no op, or a single Retain, whatever its attributes
is_noop(self) ==
    \/ self.ops = <<>>
    \/ Len(self.ops) = 1 /\ self.ops[1].kind = "Retain"

\* Delta::is_empty
is_empty(self) == self.ops = <<>>

\* Delta::invert_delta
invert_delta(self, other) ==
    IF is_empty(other) THEN EmptyDelta
    ELSE invert_delta_loop(EmptyDelta, 0, self.ops, other)

-----------------------------------------------------------------------------
(* The inputs the callers pass                                             *)

Bold == Custom([NewData EXCEPT !["bold"] = "true"])

\* Attributes passed to insert and retain.
SampleAttrs == {Empty, Bold}
\* Texts passed to insert: the empty text, one three-byte character (U+65E5),
\* and a text of a one-byte and a two-byte character (x, U+00E9).
SampleTexts == {<<>>, <<26085>>, <<120, 233>>}
\* Lengths passed to retain and delete, 0 included; longer Retains and Deletes
\* arise from merging.
SampleLens == {0, 1, 2}
\* Operations passed to add.
SampleOps ==
    {OpInsert(s, at) : s \in SampleTexts, at \in SampleAttrs}
        \cup {OpRetain(n, at) : n \in SampleLens, at \in SampleAttrs}
        \cup {OpDelete(n) : n \in SampleLens}

\* The base document of n characters handed to apply and invert: its characters
\* are pairwise distinct, so that a character that ends up at a wrong place, or
\* is lost or repeated, shows; they are one, two and three bytes long in turn.
Document(n) ==
    [i \in 1..n |-> IF i % 3 = 1 THEN 96 + i
                    ELSE IF i % 3 = 2 THEN 1024 + i ELSE 12352 + i]
Documents == {Document(n) : n \in 0..MaxText}

Italic == Custom([NewData EXCEPT !["italic"] = "true"])
\* Attributes, and non-zero lengths, passed to insert, retain and delete where
\* the attributes of two Deltas meet in compose.
RichAttrs == {Empty, Bold, Italic}
RichLens == {1, 2}

\* Every Attributes value over Keys and Vals, the un-normalised ones included
\* (AttrsBuilder::build hands out the map as it is), and Option<Attributes>.
AllAttributes == {Follow, Empty} \cup {Custom(data) : data \in AttributesData}
OptAttributes == AllAttributes \cup {NoAttributes}
\* Option<Operation> values handed to compose_attributes.
OptOperations ==
    {None, OpDelete(1)}
        \cup {OpInsert(<<26085>>, at) : at \in AllAttributes}
        \cup {OpRetain(1, at) : at \in AllAttributes}
\* Intervals handed to ops_in_interval and attributes_in_interval.
SampleIntervals ==
    {interval \in {Interval(start, end) : start \in 0..MaxText, end \in 0..MaxText} :
        interval.start <= interval.end}

-----------------------------------------------------------------------------
(* The state machine: a caller builds one Delta, may keep it and build a   *)
(* second one, and then calls one function of the algebra.                 *)

NoCall == [op |-> "none", s |-> <<>>, n |-> 0, attributes |-> Empty]
CallOf(op) ==
    [op |-> IF op.kind = "Insert" THEN "insert"
            ELSE IF op.kind = "Retain" THEN "retain" ELSE "delete",
     s |-> op.s, n |-> op.n, attributes |-> op.attributes]

NoRes == [op |-> "none", ok |-> TRUE, d1 |-> EmptyDelta, d2 |-> EmptyDelta,
          s |-> <<>>, out |-> <<>>,
          \* the arguments and the result of an attribute function
          op1 |-> None, op2 |-> None, left |-> NoAttributes, right |-> NoAttributes,
          priority |-> FALSE, attr |-> Empty,
          \* the argument of an interval query and the ops it returned
          interval |-> Interval(0, 0), ops |-> <<>>,
          \* the locals of the loop of compose or transform while it runs
          ops1 |-> <<>>, ops2 |-> <<>>, next_op1 |-> None, next_op2 |-> None]

Init ==
    /\ delta = EmptyDelta
    /\ kept = EmptyDelta
    /\ pc = "first"
    /\ calls = 0
    /\ prev = EmptyDelta
    /\ call = NoCall
    /\ res = NoRes

Building == pc \in {"first", "second"} /\ calls < MaxCalls

\* delta.insert(s, attrs)
Insert(s, attrs) ==
    /\ Building
    /\ delta' = insert(delta, s, attrs)
    /\ prev' = delta
    /\ call' = CallOf(OpInsert(s, attrs))
    /\ calls' = IF delta' = delta THEN calls ELSE calls + 1
    /\ UNCHANGED <<kept, pc, res>>

\* delta.retain(n, attrs)
Retain(n, attrs) ==
    /\ Building
    /\ delta' = retain(delta, n, attrs)
    /\ prev' = delta
    /\ call' = CallOf(OpRetain(n, attrs))
    /\ calls' = IF delta' = delta THEN calls ELSE calls + 1
    /\ UNCHANGED <<kept, pc, res>>

\* delta.delete(n)
Delete(n) ==
    /\ Building
    /\ delta' = delete(delta, n)
    /\ prev' = delta
    /\ call' = CallOf(OpDelete(n))
    /\ calls' = IF delta' = delta THEN calls ELSE calls + 1
    /\ UNCHANGED <<kept, pc, res>>

\* delta.add(op): the call recorded is the builder method add hands op to
Add(op) ==
    /\ Building
    /\ delta' = add(delta, op)
    /\ prev' = delta
    /\ call' = CallOf(op)
    /\ calls' = IF delta' = delta THEN calls ELSE calls + 1
    /\ UNCHANGED <<kept, pc, res>>

\* The caller keeps the Delta it built and starts a second one from Delta::default.
Keep ==
    /\ pc = "first"
    /\ kept' = delta
    /\ delta' = EmptyDelta
    /\ pc' = "second"
    /\ prev' = EmptyDelta
    /\ call' = NoCall
    /\ UNCHANGED <<calls, res>>

\* kept.compose(&delta)
Compose ==
    /\ pc = "second"
    /\ LET r == compose(kept, delta)
       IN  res' = [NoRes EXCEPT !.op = "compose", !.ok = r.ok, !.d1 = r.delta]
    /\ pc' = "done"
    /\ prev' = EmptyDelta
    /\ call' = NoCall
    /\ UNCHANGED <<delta, kept, calls>>

\* kept.transform(&delta)
Transform ==
    /\ pc = "second"
    /\ LET r == transform(kept, delta)
       IN  res' = [NoRes EXCEPT !.op = "transform", !.ok = r.ok,
                                !.d1 = r.a_prime, !.d2 = r.b_prime]
    /\ pc' = "done"
    /\ prev' = EmptyDelta
    /\ call' = NoCall
    /\ UNCHANGED <<delta, kept, calls>>

\* delta.apply(s)
Apply(s) ==
    /\ pc = "first"
    /\ LET r == apply(delta, s)
       IN  res' = [NoRes EXCEPT !.op = "apply", !.ok = r.ok, !.s = s, !.out = r.s]
    /\ pc' = "done"
    /\ prev' = EmptyDelta
    /\ call' = NoCall
    /\ UNCHANGED <<delta, kept, calls>>

\* delta.invert(s)
Invert(s) ==
    /\ pc = "first"
    /\ res' = [NoRes EXCEPT !.op = "invert", !.s = s, !.d1 = invert(delta, s)]
    /\ pc' = "done"
    /\ prev' = EmptyDelta
    /\ call' = NoCall
    /\ UNCHANGED <<delta, kept, calls>>

\* delta.ops.into_iter().collect::<Delta>(): FromIterator feeds every op to add
Rebuild ==
    /\ pc = "first"
    /\ res' = [NoRes EXCEPT !.op = "from_iter", !.d1 = from_iter(delta.ops)]
    /\ pc' = "done"
    /\ prev' = EmptyDelta
    /\ call' = NoCall
    /\ UNCHANGED <<delta, kept, calls>>

\* delta.ops_in_interval(interval)
OpsInInterval(interval) ==
    /\ pc = "first"
    /\ res' = [NoRes EXCEPT !.op = "ops_in_interval", !.interval = interval,
                            !.ops = ops_in_interval(delta, interval)]
    /\ pc' = "done"
    /\ prev' = EmptyDelta
    /\ call' = NoCall
    /\ UNCHANGED <<delta, kept, calls>>

\* delta.attributes_in_interval(interval)
AttributesInInterval(interval) ==
    /\ pc = "first"
    /\ res' = [NoRes EXCEPT !.op = "attributes_in_interval", !.interval = interval,
                            !.attr = attributes_in_interval(delta, interval)]
    /\ pc' = "done"
    /\ prev' = EmptyDelta
    /\ call' = NoCall
    /\ UNCHANGED <<delta, kept, calls>>

\* delta.is_noop(): res.ok is the bool returned
IsNoop ==
    /\ pc = "first"
    /\ res' = [NoRes EXCEPT !.op = "is_noop", !.ok = is_noop(delta)]
    /\ pc' = "done"
    /\ prev' = EmptyDelta
    /\ call' = NoCall
    /\ UNCHANGED <<delta, kept, calls>>

\* kept.invert_delta(&delta)
InvertDelta ==
    /\ pc = "second"
    /\ res' = [NoRes EXCEPT !.op = "invert_delta", !.d1 = invert_delta(kept, delta)]
    /\ pc' = "done"
    /\ prev' = EmptyDelta
    /\ call' = NoCall
    /\ UNCHANGED <<delta, kept, calls>>

\* compose_attributes(&left, &right)
ComposeAttributes(left, right) ==
    /\ pc = "first"
    /\ res' = [NoRes EXCEPT !.op = "compose_attributes", !.op1 = left, !.op2 = right,
                            !.attr = compose_attributes(left, right)]
    /\ pc' = "done"
    /\ UNCHANGED <<delta, kept, calls, prev, call>>

\* transform_attributes(left, right, priority)
TransformAttributes(left, right, priority) ==
    /\ pc = "first"
    /\ res' = [NoRes EXCEPT !.op = "transform_attributes", !.left = left,
                            !.right = right, !.priority = priority,
                            !.attr = transform_attributes(left, right, priority)]
    /\ pc' = "done"
    /\ UNCHANGED <<delta, kept, calls, prev, call>>

\* invert_attributes(attr, base)
InvertAttributes(attr, base) ==
    /\ pc = "first"
    /\ res' = [NoRes EXCEPT !.op = "invert_attributes", !.left = attr, !.right = base,
                            !.attr = invert_attributes(attr, base)]
    /\ pc' = "done"
    /\ UNCHANGED <<delta, kept, calls, prev, call>>

\* The fields of Delta are pub: the caller overwrites delta.base_len, so that
\* it need not be the length the ops of delta consume.
WriteBaseLen(n) ==
    /\ pc = "second"
    /\ delta' = [delta EXCEPT !.base_len = n]
    /\ pc' = "written"
    /\ prev' = EmptyDelta
    /\ call' = NoCall
    /\ UNCHANGED <<kept, calls, res>>

\* The locals of the loop kept in res, and res with the locals l
Locals ==
    [running |-> pc \in {"compose_loop", "transform_loop"}, ok |-> res.ok,
     d1 |-> res.d1, d2 |-> res.d2, ops1 |-> res.ops1, ops2 |-> res.ops2,
     next_op1 |-> res.next_op1, next_op2 |-> res.next_op2]
WithLocals(op, l) ==
    [NoRes EXCEPT !.op = op, !.ok = l.ok, !.d1 = l.d1, !.d2 = l.d2,
                  !.ops1 = l.ops1, !.ops2 = l.ops2,
                  !.next_op1 = l.next_op1, !.next_op2 = l.next_op2]

\* kept.compose(&delta) up to the loop: the length check, then the locals
ComposeEnter ==
    /\ pc \in {"second", "written"}
    /\ IF kept.target_len # delta.base_len
       THEN /\ res' = [NoRes EXCEPT !.op = "compose", !.ok = FALSE]
            /\ pc' = "done"
       ELSE /\ res' = WithLocals("compose", loop_entry(kept, delta))
            /\ pc' = "compose_loop"
    /\ prev' = EmptyDelta
    /\ call' = NoCall
    /\ UNCHANGED <<delta, kept, calls>>

\* One pass of the loop of compose; leaving the loop returns from compose
ComposeIteration ==
    /\ pc = "compose_loop"
    /\ \E locals \in {Locals} : \E l \in {compose_iteration(locals)} :
          /\ res' = WithLocals("compose", l)
          /\ pc' = IF l.running THEN "compose_loop" ELSE "done"
    /\ UNCHANGED <<delta, kept, calls, prev, call>>

\* kept.transform(&delta) up to the loop: the length check, then the locals
TransformEnter ==
    /\ pc \in {"second", "written"}
    /\ IF kept.base_len # delta.base_len
       THEN /\ res' = [NoRes EXCEPT !.op = "transform", !.ok = FALSE]
            /\ pc' = "done"
       ELSE /\ res' = WithLocals("transform", loop_entry(kept, delta))
            /\ pc' = "transform_loop"
    /\ prev' = EmptyDelta
    /\ call' = NoCall
    /\ UNCHANGED <<delta, kept, calls>>

\* One pass of the loop of transform; leaving the loop returns from transform
TransformIteration ==
    /\ pc = "transform_loop"
    /\ \E locals \in {Locals} : \E l \in {transform_iteration(locals)} :
          /\ res' = WithLocals("transform", l)
          /\ pc' = IF l.running THEN "transform_loop" ELSE "done"
    /\ UNCHANGED <<delta, kept, calls, prev, call>>

Next ==
    \/ \E s \in SampleTexts, attrs \in SampleAttrs : Insert(s, attrs)
    \/ \E n \in SampleLens, attrs \in SampleAttrs : Retain(n, attrs)
    \/ \E n \in SampleLens : Delete(n)
    \/ \E op \in SampleOps : Add(op)
    \/ Keep
    \/ Compose
    \/ Transform
    \/ \E s \in Documents : Apply(s)
    \/ \E s \in Documents : Invert(s)
    \/ Rebuild

Spec == Init /\ [][Next]_vars

\* A caller builds a Delta and asks one query of it.
NextQuery ==
    \/ \E s \in SampleTexts, attrs \in SampleAttrs : Insert(s, attrs)
    \/ \E n \in SampleLens, attrs \in SampleAttrs : Retain(n, attrs)
    \/ \E n \in SampleLens : Delete(n)
    \/ \E interval \in SampleIntervals : OpsInInterval(interval)
    \/ \E interval \in SampleIntervals : AttributesInInterval(interval)
    \/ IsNoop

SpecQuery == Init /\ [][NextQuery]_vars

\* A caller builds two Deltas whose ops carry bold, italic or no attributes,
\* and composes them.
NextCompose ==
    \/ \E attrs \in RichAttrs : Insert(<<26085>>, attrs)
    \/ \E n \in RichLens, attrs \in RichAttrs : Retain(n, attrs)
    \/ \E n \in RichLens : Delete(n)
    \/ Keep
    \/ Compose

SpecCompose == Init /\ [][NextCompose]_vars

\* A caller builds two Deltas and inverts the first against the second.
NextInvertDelta ==
    \/ \E s \in SampleTexts, attrs \in SampleAttrs : Insert(s, attrs)
    \/ \E n \in SampleLens, attrs \in SampleAttrs : Retain(n, attrs)
    \/ \E n \in SampleLens : Delete(n)
    \/ Keep
    \/ InvertDelta

SpecInvertDelta == Init /\ [][NextInvertDelta]_vars

\* A caller calls one of the attribute functions.
NextAttributes ==
    \/ \E left \in OptOperations, right \in OptOperations :
          ComposeAttributes(left, right)
    \/ \E left \in OptAttributes, right \in OptAttributes, priority \in BOOLEAN :
          TransformAttributes(left, right, priority)
    \/ \E attr \in AllAttributes, base \in AllAttributes :
          InvertAttributes(attr, base)

SpecAttributes == Init /\ [][NextAttributes]_vars

\* A caller builds two Deltas, may overwrite base_len of the second with a
\* length of the first, so that a length check passes whatever the ops are, and
\* calls compose or transform, which run their loop one pass at a time.
NextLoop ==
    \/ \E s \in SampleTexts : Insert(s, Empty)
    \/ \E n \in RichLens, attrs \in SampleAttrs : Retain(n, attrs)
    \/ \E n \in RichLens : Delete(n)
    \/ Keep
    \/ \E n \in {kept.base_len, kept.target_len} : WriteBaseLen(n)
    \/ ComposeEnter
    \/ ComposeIteration
    \/ TransformEnter
    \/ TransformIteration

\* compose and transform are sequential code: a loop that can make its next
\* pass makes it.
SpecLoop ==
    /\ Init
    /\ [][NextLoop]_vars
    /\ WF_vars(ComposeIteration)
    /\ WF_vars(TransformIteration)

-----------------------------------------------------------------------------
(* Helpers of the properties                                               *)

\* The base documents of n characters the algebraic laws are checked on: the
\* one of pairwise distinct characters, and n times one three-byte character.
TestDocs(n) == {Document(n), [i \in 1..n |-> 26085]}

RECURSIVE SumLen(_, _)
\* The sum of the lengths of the ops whose kind is in kinds; the length of an
\* Insert is the number of characters of its text.
SumLen(ops, kinds) ==
    IF ops = <<>> THEN 0
    ELSE (IF Head(ops).kind \in kinds
          THEN (IF Head(ops).kind = "Insert" THEN Len(Head(ops).s) ELSE Head(ops).n)
          ELSE 0) + SumLen(Tail(ops), kinds)

Kinds(d) == {d.ops[i].kind : i \in 1..Len(d.ops)}
HasCustom(d) == \E i \in 1..Len(d.ops) : d.ops[i].attributes.tag = "Custom"

\* The Delta made of the single op Retain(n, Empty).
IdentityDelta(n) == [ops |-> <<OpRetain(n, Empty)>>, base_len |-> n, target_len |-> n]

Composed == pc = "done" /\ res.op = "compose"
Transformed == pc = "done" /\ res.op = "transform"
Inverted == pc = "done" /\ res.op = "invert"
Rebuilt == pc = "done" /\ res.op = "from_iter"
Applied == pc = "done" /\ res.op = "apply"
ComposedAttributes == pc = "done" /\ res.op = "compose_attributes"
TransformedAttributes == pc = "done" /\ res.op = "transform_attributes"
InvertedAttributes == pc = "done" /\ res.op = "invert_attributes"

\* The entries of an Attributes value: those of the map of a Custom, none otherwise.
Entries(attr) == IF attr.tag = "Custom" THEN attr.data ELSE NewData
\* The keys a map holds.
KeysOf(data) == {k \in Keys : data[k] # ABSENT}
AskedOps == pc = "done" /\ res.op = "ops_in_interval"
AskedAttributes == pc = "done" /\ res.op = "attributes_in_interval"

\* The offset of the i-th op of d: the lengths of the Insert, Retain and Delete
\* ops before it.
OffsetOf(d, i) == SumLen(SubSeq(d.ops, 1, i - 1), {"Insert", "Retain", "Delete"})
\* The offset of the i-th op of d among the inserted characters: the lengths of
\* the Insert ops before it.
InsertOffsetOf(d, i) == SumLen(SubSeq(d.ops, 1, i - 1), {"Insert"})
\* The length of the i-th op of d.
LengthOf(d, i) == SumLen(SubSeq(d.ops, i, i), {"Insert", "Retain", "Delete"})

RECURSIVE Selected(_, _, _)
\* The ops of d, from the i-th on, whose index is in the set picked, in order.
Selected(d, picked, i) ==
    IF i > Len(d.ops) THEN <<>>
    ELSE (IF i \in picked THEN <<d.ops[i]>> ELSE <<>>) \o Selected(d, picked, i + 1)

RECURSIVE Overlaid(_, _, _)
\* The maps of the Custom Inserts of d, from the i-th op on, whose index is in
\* the set picked, laid over data in order: a later op overrides.
Overlaid(d, picked, i) ==
    IF i > Len(d.ops) THEN NewData
    ELSE LET later == Overlaid(d, picked, i + 1)
         IN  IF i \in picked /\ d.ops[i].attributes.tag = "Custom"
             THEN [k \in Keys |-> IF later[k] # ABSENT THEN later[k]
                                  ELSE d.ops[i].attributes.data[k]]
             ELSE later

RECURSIVE TargetOps(_)
\* For every character of the target of the ops, in order, the kind and the
\* attributes of the op that yields it (a Delete yields none).
TargetOps(ops) ==
    IF ops = <<>> THEN <<>>
    ELSE LET op == Head(ops)
             count == IF op.kind = "Insert" THEN Len(op.s)
                      ELSE IF op.kind = "Retain" THEN op.n ELSE 0
         IN  [i \in 1..count |-> [kind |-> op.kind, attributes |-> op.attributes]]
                 \o TargetOps(Tail(ops))

RECURSIVE TargetSources(_, _)
\* For every character of the target of the ops, in order, the base position
\* (from 1) it is retained from, 0 for an inserted character; offset is the
\* number of base characters the ops before have consumed.
TargetSources(ops, offset) ==
    IF ops = <<>> THEN <<>>
    ELSE LET op == Head(ops)
         IN  IF op.kind = "Insert"
             THEN [i \in 1..Len(op.s) |-> 0] \o TargetSources(Tail(ops), offset)
             ELSE IF op.kind = "Retain"
             THEN [i \in 1..op.n |-> offset + i]
                      \o TargetSources(Tail(ops), offset + op.n)
             ELSE TargetSources(Tail(ops), offset + op.n)

InvertedDelta == pc = "done" /\ res.op = "invert_delta"

\* The op A.invert(S) hands to the builder for the i-th op of A.
InverseOp(d, S, i) ==
    LET op == d.ops[i]
        offset == SumLen(SubSeq(d.ops, 1, i - 1), {"Retain", "Delete"})
    IN  IF op.kind = "Retain" THEN OpRetain(op.n, Follow)
        ELSE IF op.kind = "Insert" THEN OpDelete(Len(op.s))
        ELSE OpInsert(SubSeq(S, offset + 1, offset + op.n), Empty)

RECURSIVE InsertedFrom(_, _, _)
\* The text the ops insert at base position p (the base characters consumed
\* before it), the first op standing at base position offset.
InsertedFrom(ops, offset, p) ==
    IF ops = <<>> THEN <<>>
    ELSE IF Head(ops).kind = "Insert"
    THEN (IF offset = p THEN Head(ops).s ELSE <<>>) \o InsertedFrom(Tail(ops), offset, p)
    ELSE InsertedFrom(Tail(ops), offset + Head(ops).n, p)

InsertedAt(d, p) == InsertedFrom(d.ops, 0, p)

\* The base characters (1-based) that d deletes.
DeletedBy(d) ==
    {k \in 1..d.base_len :
        \E i \in 1..Len(d.ops) :
            LET offset == SumLen(SubSeq(d.ops, 1, i - 1), {"Retain", "Delete"})
            IN  d.ops[i].kind = "Delete" /\ offset < k /\ k <= offset + d.ops[i].n}

RECURSIVE MergedFrom(_, _, _, _)
\* The document both sides must reach from S: at every base position the text
\* of a, then the text of b, then the base character unless one of them
\* deletes it.
MergedFrom(a, b, S, p) ==
    IF p > Len(S) THEN <<>>
    ELSE InsertedAt(a, p) \o InsertedAt(b, p)
            \o (IF p < Len(S) /\ (p + 1) \notin (DeletedBy(a) \cup DeletedBy(b))
                THEN <<S[p + 1]>> ELSE <<>>)
            \o MergedFrom(a, b, S, p + 1)

-----------------------------------------------------------------------------
(* C1. Apply-compose law: when kept.target_len = delta.base_len, for every *)
(* base document S of kept.base_len characters, kept.compose(delta)        *)
(* succeeds and delta.apply(kept.apply(S)) = kept.compose(delta).apply(S). *)
ApplyComposeLaw ==
    (Composed /\ kept.target_len = delta.base_len) =>
        /\ res.ok
        /\ \A S \in TestDocs(kept.base_len) :
              LET mid == apply(kept, S)
                  lhs == apply(delta, mid.s)
                  rhs == apply(res.d1, S)
              IN  mid.ok /\ lhs.ok /\ rhs.ok /\ lhs.s = rhs.s

\* A compose of a Delta that retains and inserts with one that deletes what
\* the first produced has returned Ok.
ApplyComposeWitness ==
    /\ Composed /\ res.ok
    /\ Kinds(kept) = {"Retain", "Insert"}
    /\ Kinds(delta) = {"Delete"}
    /\ res.d1.ops # <<>>

(* C2. Transform convergence (TP1) on text: when kept.base_len =            *)
(* delta.base_len and (a', b') = kept.transform(delta), for every base      *)
(* document S of that length b'.apply(kept.apply(S)) = a'.apply(delta.apply(S)). *)
TransformConvergesOnText ==
    (Transformed /\ kept.base_len = delta.base_len) =>
        /\ res.ok
        /\ \A S \in TestDocs(kept.base_len) :
              LET sa == apply(kept, S)
                  sb == apply(delta, S)
                  lhs == apply(res.d2, sa.s)
                  rhs == apply(res.d1, sb.s)
              IN  sa.ok /\ sb.ok /\ lhs.ok /\ rhs.ok /\ lhs.s = rhs.s

\* A transform of a Delta that inserts and deletes against one that retains,
\* on a non-empty base, has returned Ok.
TransformTextWitness ==
    /\ Transformed /\ res.ok
    /\ Kinds(kept) = {"Insert", "Delete"}
    /\ Kinds(delta) = {"Retain"}
    /\ kept.base_len = delta.base_len

(* C3. Invert round-trip: for a base document S of delta.base_len           *)
(* characters, delta.invert(S).apply(delta.apply(S)) succeeds and is S.     *)
InvertRoundTrip ==
    (Inverted /\ Len(res.s) = delta.base_len) =>
        LET target == apply(delta, res.s)
            back == apply(res.d1, target.s)
        IN  target.ok /\ back.ok /\ back.s = res.s

\* invert has run on a Delta that retains, inserts and deletes, against a base
\* document of the right length.
InvertRoundTripWitness ==
    /\ Inverted /\ Len(res.s) = delta.base_len
    /\ Kinds(delta) = {"Retain", "Insert", "Delete"}

(* C4. Transform convergence on Deltas: when kept.base_len = delta.base_len *)
(* and (a', b') = kept.transform(delta), kept.compose(b') and               *)
(* delta.compose(a') both succeed and are the same Delta (ops with their    *)
(* attributes, base_len, target_len).                                       *)
TransformConvergesOnDeltas ==
    (Transformed /\ kept.base_len = delta.base_len) =>
        /\ res.ok
        /\ LET ab == compose(kept, res.d2)
               ba == compose(delta, res.d1)
           IN  ab.ok /\ ba.ok /\ ab.delta = ba.delta

(* C5. Compose identity: composing a Delta A with the Delta of the single   *)
(* op Retain(A.target_len, Empty) gives A, and composing the Delta          *)
(* Retain(A.base_len, Empty) with A gives A.                                *)
ComposeIdentity ==
    /\ (Composed /\ delta = IdentityDelta(kept.target_len)) =>
           res.ok /\ res.d1 = kept
    /\ (Composed /\ kept = IdentityDelta(delta.base_len)) =>
           res.ok /\ res.d1 = delta

(* C6. Length bookkeeping: after any sequence of insert, retain, delete and *)
(* add calls, base_len is the sum of the lengths of the Retain and Delete   *)
(* ops and target_len the sum of the lengths of the Retain and Insert ops.  *)
LengthBookkeeping ==
    \A d \in {delta, kept} :
        /\ d.base_len = SumLen(d.ops, {"Retain", "Delete"})
        /\ d.target_len = SumLen(d.ops, {"Retain", "Insert"})

\* A builder call has merged into an op of a Delta that inserts a text whose
\* bytes outnumber its characters.
LengthBookkeepingWitness ==
    /\ call.op # "none" /\ delta # prev /\ Len(delta.ops) = Len(prev.ops)
    /\ Len(delta.ops) = 2
    /\ \E i \in 1..Len(delta.ops) :
          delta.ops[i].kind = "Insert"
              /\ Len(as_bytes(delta.ops[i].s)) > Len(delta.ops[i].s)

(* C7. Insert-before-Delete canonical form: no Insert op immediately        *)
(* follows a Delete op in ops, and an insert that arrives when the tail is  *)
(* [Delete] or [Insert, Delete] ends up before that Delete, whatever its    *)
(* attributes.                                                              *)
InsertBeforeDelete ==
    /\ \A d \in {delta, kept} : \A i \in 1..(Len(d.ops) - 1) :
          ~(d.ops[i].kind = "Delete" /\ d.ops[i + 1].kind = "Insert")
    /\ (call.op = "insert" /\ call.s # <<>> /\ prev.ops # <<>>
            /\ last(prev.ops).kind = "Delete") =>
          last(delta.ops) = last(prev.ops)

(* C8. Merge invariant: ops never holds two adjacent Deletes, two adjacent  *)
(* Retains with equal attributes or two adjacent Inserts with equal         *)
(* attributes; an insert (retain) that follows an Insert (Retain) with      *)
(* other attributes is appended as an op of its own.                        *)
MergeInvariant ==
    /\ \A d \in {delta, kept} : \A i \in 1..(Len(d.ops) - 1) :
          LET x == d.ops[i]
              y == d.ops[i + 1]
          IN  /\ ~(x.kind = "Delete" /\ y.kind = "Delete")
              /\ ~(x.kind = "Retain" /\ y.kind = "Retain"
                     /\ x.attributes = y.attributes)
              /\ ~(x.kind = "Insert" /\ y.kind = "Insert"
                     /\ x.attributes = y.attributes)
    /\ (call.op = "insert" /\ call.s # <<>> /\ prev.ops # <<>>
            /\ last(prev.ops).kind = "Insert"
            /\ last(prev.ops).attributes # call.attributes) =>
          delta.ops = Append(prev.ops, OpInsert(call.s, call.attributes))
    /\ (call.op = "retain" /\ call.n > 0 /\ prev.ops # <<>>
            /\ last(prev.ops).kind = "Retain"
            /\ last(prev.ops).attributes # call.attributes) =>
          delta.ops = Append(prev.ops, OpRetain(call.n, call.attributes))

\* An insert has just been appended after an Insert of other attributes, which
\* itself follows a Retain.
MergeInvariantWitness ==
    /\ call.op = "insert" /\ call.s # <<>>
    /\ Len(delta.ops) = 3 /\ Len(prev.ops) = 2
    /\ delta.ops[1].kind = "Retain"
    /\ delta.ops[2].kind = "Insert" /\ delta.ops[3].kind = "Insert"
    /\ delta.ops[2].attributes # delta.ops[3].attributes

(* C9. Order independence of an insert and a delete at the same position:   *)
(* for a Delta D reachable through the builder, n > 0, a non-empty text t   *)
(* and attributes a, delete(n) then insert(t, a) on D gives the same Delta  *)
(* as insert(t, a) then delete(n) on D.                                     *)
InsertDeleteOrderIndependent ==
    \A n \in SampleLens \ {0}, t \in SampleTexts \ {<<>>}, a \in SampleAttrs :
        insert(delete(delta, n), t, a) = delete(insert(delta, t, a), n)

(* C10. Normalization idempotence: feeding the ops of a Delta built through *)
(* insert/retain/delete, in order, through add into a fresh Delta gives the *)
(* same Delta (ops, base_len, target_len).                                  *)
NormalizationIdempotent ==
    Rebuilt => res.d1 = delta

\* A Delta of three ops or more, an Insert with attributes right before a
\* Delete among them, has been rebuilt.
NormalizationWitness ==
    /\ Rebuilt
    /\ Len(delta.ops) >= 3
    /\ \E i \in 1..(Len(delta.ops) - 1) :
          delta.ops[i].kind = "Insert" /\ delta.ops[i + 1].kind = "Delete"
    /\ HasCustom(delta)

(* C11. Length-precondition errors: apply returns an error, and no string,  *)
(* whenever the character count of its argument differs from base_len;      *)
(* compose returns an error, and no Delta, whenever kept.target_len differs *)
(* from delta.base_len; transform returns an error, and no Deltas, whenever *)
(* kept.base_len differs from delta.base_len.                               *)
LengthPreconditionErrors ==
    /\ (Applied /\ Len(res.s) # delta.base_len) =>
           ~res.ok /\ res.out = <<>>
    /\ (Composed /\ kept.target_len # delta.base_len) =>
           ~res.ok /\ res.d1 = EmptyDelta
    /\ (Transformed /\ kept.base_len # delta.base_len) =>
           ~res.ok /\ res.d1 = EmptyDelta /\ res.d2 = EmptyDelta

\* apply has been handed a document longer than base_len by a Delta that
\* retains and inserts, whose loop would have produced a text.
LengthPreconditionWitness ==
    /\ Applied /\ Len(res.s) > delta.base_len
    /\ Kinds(delta) = {"Retain", "Insert"}

(* C12. Insert tie-break in transform: when kept (self) and delta (other),  *)
(* of equal base_len, both insert text at one base position, then after     *)
(* (a', b') = kept.transform(delta) both b'.apply(kept.apply(S)) and        *)
(* a'.apply(delta.apply(S)) are the document that holds, at every base      *)
(* position, the text of kept immediately before the text of delta.         *)
InsertTieBreak ==
    (Transformed /\ kept.base_len = delta.base_len
        /\ \E p \in 0..kept.base_len :
              InsertedAt(kept, p) # <<>> /\ InsertedAt(delta, p) # <<>>) =>
        /\ res.ok
        /\ \A S \in TestDocs(kept.base_len) :
              /\ apply(res.d2, apply(kept, S).s).s = MergedFrom(kept, delta, S, 0)
              /\ apply(res.d1, apply(delta, S).s).s = MergedFrom(kept, delta, S, 0)

\* transform has run on two Deltas that insert different texts at one base
\* position.
InsertTieBreakWitness ==
    /\ Transformed /\ res.ok
    /\ \E p \in 0..kept.base_len :
          /\ InsertedAt(kept, p) # <<>> /\ InsertedAt(delta, p) # <<>>
          /\ InsertedAt(kept, p) \o InsertedAt(delta, p)
                # InsertedAt(delta, p) \o InsertedAt(kept, p)

(* C13. compose_attributes(left, right), on the attributes of the two ops:  *)
(* when right is Custom the result is the overlay of right on left (right   *)
(* wins per key, a left that is not Custom or is absent counts as empty)    *)
(* without its REMOVE-valued entries, Empty when nothing is left; Follow    *)
(* when both are Follow; left's entries without the REMOVE-valued ones      *)
(* (Empty when nothing is left) when left is Custom and right is Follow;    *)
(* Empty in every other case.                                               *)
ComposeAttributesRule ==
    ComposedAttributes =>
        LET l == attributes_from(res.op1)
            r == attributes_from(res.op2)
            overlay == [k \in Keys |->
                           IF r.tag = "Custom" /\ r.data[k] # ABSENT
                           THEN r.data[k] ELSE Entries(l)[k]]
            kept_keys == {k \in Keys : overlay[k] \notin {ABSENT, REMOVE_FLAG}}
            normalized == IF kept_keys = {} THEN Empty
                          ELSE Custom([k \in Keys |-> IF k \in kept_keys
                                                      THEN overlay[k] ELSE ABSENT])
        IN  res.attr = IF r.tag = "Custom" THEN normalized
                       ELSE IF l.tag = "Follow" /\ r.tag = "Follow" THEN Follow
                       ELSE IF l.tag = "Custom" /\ r.tag = "Follow" THEN normalized
                       ELSE Empty

\* compose_attributes has been called with {bold: "true"} on the left and
\* {bold: REMOVE} on the right, and has returned Empty.
ComposeAttributesWitness ==
    /\ ComposedAttributes
    /\ attributes_from(res.op1) = Bold
    /\ attributes_from(res.op2) = Custom([NewData EXCEPT !["bold"] = REMOVE_FLAG])
    /\ res.attr = Empty

(* C14. Released attributes are normalized: a value returned by             *)
(* compose_attributes, transform_attributes or invert_attributes is never a *)
(* Custom whose map is empty and never a Custom that holds a REMOVE-marked  *)
(* (empty string) value.                                                    *)
ReleasedAttributesNormalized ==
    (ComposedAttributes \/ TransformedAttributes \/ InvertedAttributes) =>
        ~(res.attr.tag = "Custom"
            /\ (KeysOf(res.attr.data) = {}
                  \/ \E k \in Keys : res.attr.data[k] = REMOVE_FLAG))

(* C15. transform_attributes(left, right, priority): with left absent it    *)
(* returns right's value, Empty when right is absent too; with left present *)
(* and priority false it returns right; with priority true and both Custom  *)
(* it returns the Custom of exactly the entries of right whose keys left    *)
(* does not hold; in every other case with priority true it returns Empty.  *)
TransformAttributesRule ==
    TransformedAttributes =>
        res.attr =
            IF res.left.tag = "None"
            THEN (IF res.right.tag = "None" THEN Empty ELSE res.right)
            ELSE IF ~res.priority
            THEN res.right
            ELSE IF res.left.tag = "Custom" /\ res.right.tag = "Custom"
            THEN Custom([k \in Keys |->
                            IF k \in KeysOf(res.right.data) \ KeysOf(res.left.data)
                            THEN res.right.data[k] ELSE ABSENT])
            ELSE Empty

(* C16. invert_attributes(attr, base) returns Empty when neither argument   *)
(* is Custom; otherwise its result holds exactly the keys that attr and     *)
(* base both hold with different values, each with base's value: a key only *)
(* attr holds, or only base holds, or of equal values, is not in it.        *)
InvertAttributesRule ==
    InvertedAttributes =>
        LET a == Entries(res.left)
            b == Entries(res.right)
            differing == {k \in KeysOf(a) \cap KeysOf(b) : a[k] # b[k]}
        IN  IF res.left.tag # "Custom" /\ res.right.tag # "Custom"
            THEN res.attr = Empty
            ELSE /\ KeysOf(Entries(res.attr)) = differing
                 /\ \A k \in differing : Entries(res.attr)[k] = b[k]

\* invert_attributes has been called with an attr that holds a key base lacks
\* and a key base holds with another value, and has returned that one key.
InvertAttributesWitness ==
    /\ InvertedAttributes
    /\ KeysOf(Entries(res.left)) = Keys
    /\ Cardinality(KeysOf(Entries(res.right))) = 1
    /\ Cardinality(KeysOf(Entries(res.attr))) = 1

(* C17. ops_in_interval([s, e)) returns, in order and whole, exactly the    *)
(* ops whose range [offset, offset + length) overlaps [s, e), the offset of *)
(* an op being the sum of the lengths of the Insert, Retain and Delete ops  *)
(* before it; an op that starts before s and reaches past s is among them.  *)
OpsInIntervalOverlap ==
    AskedOps =>
        res.ops = Selected(delta,
                           {i \in 1..Len(delta.ops) :
                               /\ OffsetOf(delta, i) < res.interval.end
                               /\ res.interval.start
                                     < OffsetOf(delta, i) + LengthOf(delta, i)},
                           1)

(* C18. attributes_in_interval([s, e)) returns, for every Delta built       *)
(* through the builder, whatever the kinds of its ops, and every interval,  *)
(* the normalized overlay of the maps of the Custom Inserts whose range     *)
(* [offset, offset + len) lies within [s, e), later ops overriding, Empty   *)
(* when there is none; the call always returns.  The offset of an Insert is *)
(* taken as the sum of the lengths of the Inserts before it.                *)
AttributesInIntervalTotal ==
    AskedAttributes =>
        /\ res.attr # Panic
        /\ res.attr =
              into_attributes(
                  Overlaid(delta,
                           {i \in 1..Len(delta.ops) :
                               /\ delta.ops[i].kind = "Insert"
                               /\ res.interval.start <= InsertOffsetOf(delta, i)
                               /\ InsertOffsetOf(delta, i) + LengthOf(delta, i)
                                     <= res.interval.end},
                           1))

(* C19. Zero-length calls are no-ops: retain(0, attrs), delete(0) and       *)
(* insert("", attrs) leave the Delta as it was (ops, base_len, target_len), *)
(* and no Delta reachable through the builder holds a Retain or Delete of   *)
(* length 0 or an Insert of the empty text.                                 *)
ZeroLengthNoOps ==
    /\ ((call.op = "retain" /\ call.n = 0) \/ (call.op = "delete" /\ call.n = 0)
            \/ (call.op = "insert" /\ call.s = <<>>)) =>
          delta = prev
    /\ \A d \in {delta, kept} : \A i \in 1..Len(d.ops) :
          IF d.ops[i].kind = "Insert" THEN d.ops[i].s # <<>> ELSE d.ops[i].n > 0

\* retain(0, attrs) has been called on a Delta whose last op is a Retain of
\* other attributes.
ZeroLengthWitness ==
    /\ call.op = "retain" /\ call.n = 0
    /\ prev.ops # <<>> /\ last(prev.ops).kind = "Retain"
    /\ last(prev.ops).attributes # call.attributes

(* C20. No spurious errors: apply on a document of base_len characters,     *)
(* compose when kept.target_len = delta.base_len and transform when         *)
(* kept.base_len = delta.base_len return Ok for Deltas built through the    *)
(* builder: the loops of compose and transform never reach the branch of    *)
(* one cursor exhausted before the other.                                   *)
NoSpuriousErrors ==
    /\ (Applied /\ Len(res.s) = delta.base_len) => res.ok
    /\ (Composed /\ kept.target_len = delta.base_len) => res.ok
    /\ (Transformed /\ kept.base_len = delta.base_len) => res.ok

\* compose has returned Ok for a Delta that inserts a text of two characters
\* and a Delta that retains one of them and deletes the other, so that an op
\* had to be split.
NoSpuriousErrorsWitness ==
    /\ Composed /\ res.ok
    /\ Len(kept.ops) = 1 /\ kept.ops[1].kind = "Insert" /\ Len(kept.ops[1].s) = 2
    /\ Len(delta.ops) = 2
    /\ delta.ops[1].kind = "Retain" /\ delta.ops[2].kind = "Delete"

(* C21. Splitting keeps Retain attributes in compose: in kept.compose(delta) *)
(* every character that a Retain(m, Custom R) of delta covers receives the  *)
(* entries of R in the result, however the ops of kept partition that run   *)
(* (the remainder of a split Retain still carries its attributes).          *)
ComposeKeepsRetainAttributes ==
    (Composed /\ res.ok) =>
        LET b == TargetOps(delta.ops)
            ab == TargetOps(res.d1.ops)
        IN  /\ Len(ab) = Len(b)
            /\ \A j \in 1..Len(b) :
                  (b[j].kind = "Retain" /\ b[j].attributes.tag = "Custom") =>
                      \A k \in Keys :
                          b[j].attributes.data[k] \notin {ABSENT, REMOVE_FLAG} =>
                              Entries(ab[j].attributes)[k] = b[j].attributes.data[k]

(* C22. No attribute leak from inserted text in compose: in the Delta       *)
(* returned by kept.compose(delta) an entry of the attributes of a Retain   *)
(* op is an entry of the Retain of kept or of the Retain of delta that      *)
(* cover that character; an entry that only an Insert of kept carries is    *)
(* not on a retained character.                                             *)
ComposeNoAttributeLeak ==
    (Composed /\ res.ok) =>
        LET a == TargetOps(kept.ops)
            b == TargetOps(delta.ops)
            from == TargetSources(delta.ops, 0)
            ab == TargetOps(res.d1.ops)
        IN  \A j \in 1..Len(ab) :
                (ab[j].kind = "Retain" /\ j <= Len(b) /\ from[j] \in 1..Len(a)) =>
                    \A k \in Keys :
                        Entries(ab[j].attributes)[k] # ABSENT =>
                            Entries(ab[j].attributes)[k]
                                \in {Entries(a[from[j]].attributes)[k],
                                     Entries(b[j].attributes)[k]}

(* C23. invert_delta undoes insertions: when kept (self) consists of Insert *)
(* ops only, of total length L, kept.invert_delta(delta) is the Delta of    *)
(* the single op Delete(L), for every delta (other), the empty Delta        *)
(* included.                                                                *)
InvertDeltaUndoesInserts ==
    (InvertedDelta /\ Kinds(kept) = {"Insert"}) =>
        res.d1 = [ops |-> <<OpDelete(kept.target_len)>>,
                  base_len |-> kept.target_len, target_len |-> 0]

(* C24. invert_delta yields a composable undo: when the lengths of the ops  *)
(* of delta (other) sum to kept.base_len, kept.invert_delta(delta).base_len *)
(* is kept.target_len.                                                      *)
InvertDeltaComposable ==
    (InvertedDelta
        /\ SumLen(delta.ops, {"Insert", "Retain", "Delete"}) = kept.base_len) =>
        res.d1.base_len = kept.target_len

(* C25. Attribute undo round-trip: for Custom attribute sets attr and base, *)
(* composing base with attr and the result with invert_attributes(attr,     *)
(* base), as compose_attributes does on two Retains, gives base in its      *)
(* normalized form.                                                         *)
InvertAttributesRoundTrip ==
    (InvertedAttributes /\ res.left.tag = "Custom" /\ res.right.tag = "Custom") =>
        LET attr == res.left
            base == res.right
            changed == compose_attributes(OpRetain(1, base), OpRetain(1, attr))
            restored == compose_attributes(OpRetain(1, changed), OpRetain(1, res.attr))
        IN  restored = apply_rule(base)

(* C26. Transform output shapes: when kept.base_len = delta.base_len and    *)
(* (a', b') = kept.transform(delta), a'.base_len = delta.target_len,        *)
(* b'.base_len = kept.target_len and a'.target_len = b'.target_len.         *)
TransformShapes ==
    (Transformed /\ kept.base_len = delta.base_len) =>
        /\ res.ok
        /\ res.d1.base_len = delta.target_len
        /\ res.d2.base_len = kept.target_len
        /\ res.d1.target_len = res.d2.target_len

\* transform has returned Ok for two Deltas of target lengths that differ,
\* the first of which deletes.
TransformShapesWitness ==
    /\ Transformed /\ res.ok
    /\ kept.target_len # delta.target_len
    /\ "Delete" \in Kinds(kept) /\ delta.ops # <<>>

(* C27. Compose output shape: when kept.target_len = delta.base_len,        *)
(* kept.compose(delta) has the base_len of kept and the target_len of       *)
(* delta.                                                                   *)
ComposeShape ==
    (Composed /\ kept.target_len = delta.base_len) =>
        /\ res.ok
        /\ res.d1.base_len = kept.base_len
        /\ res.d1.target_len = delta.target_len

\* compose has returned Ok for a Delta that inserts a text of two characters
\* and a Delta that retains the first of them only, so that the text is split.
ComposeShapeWitness ==
    /\ Composed /\ res.ok
    /\ \E i \in 1..Len(kept.ops) : kept.ops[i].kind = "Insert" /\ Len(kept.ops[i].s) = 2
    /\ delta.ops # <<>> /\ delta.ops[1] = OpRetain(1, Empty)
    /\ kept.ops[1].kind = "Insert"

(* C28. Shape of invert: for a document S of delta.base_len characters,     *)
(* delta.invert(S) is what the builder makes of, in order, Retain(n,        *)
(* Follow) for a Retain(n, _), Delete(len(t)) for an Insert(t, _) and       *)
(* Insert(the n characters of S at the base position, Empty) for a          *)
(* Delete(n); no attribute of an op of delta is in the result.              *)
InvertShape ==
    (Inverted /\ Len(res.s) = delta.base_len) =>
        /\ res.d1 = from_iter([i \in 1..Len(delta.ops) |-> InverseOp(delta, res.s, i)])
        /\ \A i \in 1..Len(res.d1.ops) : res.d1.ops[i].attributes \in {Follow, Empty}

\* invert has run on a Delta that retains with attributes and deletes two
\* characters past the first of the document.
InvertShapeWitness ==
    /\ Inverted /\ Len(res.s) = delta.base_len
    /\ delta.ops # <<>> /\ delta.ops[1].kind = "Retain"
    /\ delta.ops[1].attributes.tag = "Custom"
    /\ \E i \in 2..Len(delta.ops) : delta.ops[i].kind = "Delete" /\ delta.ops[i].n = 2

(* C29. Invert swaps the lengths: for a document S of delta.base_len        *)
(* characters, delta.invert(S).base_len = delta.target_len and              *)
(* delta.invert(S).target_len = delta.base_len.                             *)
InvertSwapsLengths ==
    (Inverted /\ Len(res.s) = delta.base_len) =>
        /\ res.d1.base_len = delta.target_len
        /\ res.d1.target_len = delta.base_len

\* invert has run on a Delta of different base and target lengths that
\* deletes characters of more than one byte.
InvertSwapsLengthsWitness ==
    /\ Inverted /\ Len(res.s) = delta.base_len
    /\ delta.base_len # delta.target_len
    /\ \E i \in 1..Len(res.d1.ops) :
          res.d1.ops[i].kind = "Insert"
              /\ Len(as_bytes(res.d1.ops[i].s)) > Len(res.d1.ops[i].s)

(* C30. is_noop is sound: when is_noop() returns true the Delta has no      *)
(* effect: its ops are empty or a single Retain that carries no attributes, *)
(* and apply(S) = S for every document S of base_len characters.            *)
IsNoopSound ==
    (pc = "done" /\ res.op = "is_noop" /\ res.ok) =>
        /\ \/ delta.ops = <<>>
           \/ /\ Len(delta.ops) = 1 /\ delta.ops[1].kind = "Retain"
              /\ delta.ops[1].attributes.tag # "Custom"
        /\ \A S \in TestDocs(delta.base_len) : apply(delta, S) = OkString(S)

\* The ops a cursor of the running loop still has to hand out: the current op,
\* if there is one, and those left in the iterator.
Cursor1 == Len(res.ops1) + (IF res.next_op1 = None THEN 0 ELSE 1)
Cursor2 == Len(res.ops2) + (IF res.next_op2 = None THEN 0 ELSE 1)
InLoop == pc \in {"compose_loop", "transform_loop"}

\* A pass after which the loop goes on consumed an op of one of the cursors; a
\* cursor that consumed none has its current op unchanged or replaced by a
\* strictly shorter remainder of the same kind.
IterationProgress ==
    (InLoop /\ pc' = pc) =>
        /\ Cursor1' <= Cursor1
        /\ Cursor2' <= Cursor2
        /\ Cursor1' < Cursor1 \/ Cursor2' < Cursor2
        /\ Cursor1' = Cursor1 =>
              /\ res'.ops1 = res.ops1
              /\ \/ res'.next_op1 = res.next_op1
                 \/ /\ res'.next_op1.kind = res.next_op1.kind
                    /\ length(res'.next_op1) < length(res.next_op1)
        /\ Cursor2' = Cursor2 =>
              /\ res'.ops2 = res.ops2
              /\ \/ res'.next_op2 = res.next_op2
                 \/ /\ res'.next_op2.kind = res.next_op2.kind
                    /\ length(res'.next_op2) < length(res.next_op2)

\* C31: termination of the co-iteration loops. For every pair of Deltas,
\* whether or not their lengths match, every pass of the loop of compose or
\* transform consumes an op of one of the two cursors, the other cursor keeping
\* its op or a strictly shorter remainder of it, and a call that entered the
\* loop returns Ok or Err after finitely many passes.
CoIterationTerminates ==
    /\ [][IterationProgress]_vars
    /\ InLoop ~> (pc = "done" /\ res.op \in {"compose", "transform"})

\* What the loop returned is what compose and transform return.
LoopReturnsResult ==
    (pc = "done" /\ res.op \in {"compose", "transform"}) =>
        IF res.op = "compose"
        THEN LET r == compose(kept, delta)
             IN  res.ok = r.ok /\ res.d1 = r.delta
        ELSE LET r == transform(kept, delta)
             IN  res.ok = r.ok /\ res.d1 = r.a_prime /\ res.d2 = r.b_prime

\* compose returned Ok from its loop, whose first pass replaced next_op2, the
\* one Retain of delta, by the remainder the first op of kept left of it.
CoIterationTerminatesWitness ==
    /\ pc = "done"
    /\ res.op = "compose"
    /\ res.ok
    /\ Len(kept.ops) >= 2
    /\ kept.ops[1].kind # "Delete"
    /\ Len(delta.ops) = 1
    /\ delta.ops[1].kind = "Retain"
    /\ length(kept.ops[1]) < delta.ops[1].n

=============================================================================
